---- MODULE Spec2Model ----
(***************************************************************************)
(* State machine of the DocumentUploader component                         *)
(* (src/src/components/DocumentUploader.tsx): the React state (files and   *)
(* error), the props the parent controls, the interval timers started by   *)
(* simulateUpload with their private progress counters, the zero-delay     *)
(* timeouts that deliver onUploadComplete, and the callback invocations    *)
(* the parent observes.  The isDragging flag only selects a style and is   *)
(* left out.                                                               *)
(*                                                                         *)
(* The ResultsDashboard component (ResultsDashboard.tsx) with the          *)
(* DocumentSummary cards it renders is a second state machine, DashSpec:   *)
(* the documents prop, the activeDocument state and the selections of the  *)
(* two Tabs groups.  Either machine leaves the state of the other alone.   *)
(*                                                                         *)
(* Strings that the code inspects (file names, extensions) are sequences   *)
(* of one-character strings.  A state update and the render that follows   *)
(* it are one step: every handler sees the list its render committed.      *)
(* invoked holds the callback invocation of the latest step, if any.       *)
(***************************************************************************)
EXTENDS Integers, Sequences, FiniteSets, TLC

VARIABLES files, error, maxFiles, isProcessing,
          intervals, active, nextId, timeouts, invoked,
          documents, activeDocument, dashboardTab, summaryTab

uploaderVars == <<files, error, maxFiles, isProcessing,
                  intervals, active, nextId, timeouts, invoked>>

dashboardVars == <<documents, activeDocument, dashboardTab, summaryTab>>

vars == <<files, error, maxFiles, isProcessing,
          intervals, active, nextId, timeouts, invoked,
          documents, activeDocument, dashboardTab, summaryTab>>

----------------------------------------------------------------------------
(* Bounds of the exploration *)

\* number of files that are ever accepted (ids handed out) in one run
MaxCreated == 2

\* longest FileList a drop or a selection carries
MaxBatch == 2

\* largest value of the maxFiles prop that is explored
MaxFilesProp == 2

\* longest documents prop the parent passes to the dashboard
MaxDocs == 2

----------------------------------------------------------------------------
(* Props and constants of the component *)

maxSizeMB == 10

maxSizeBytes == maxSizeMB * 1024 * 1024

allowedFileTypes ==
    << <<".", "p", "d", "f">>, <<".", "d", "o", "c", "x">>, <<".", "d", "o", "c">> >>

\* progress value at which simulateUpload completes a file
Complete == 100

\* the values Math.random() * 10 takes in the exploration (a sample of [0, 10))
RandomTimes10 == {0, 8}

\* setError(null)
Null == <<>>

SizeError == <<"File size exceeds ", maxSizeMB, "MB limit">>

TypeError == <<"File type not supported. Allowed types: ", allowedFileTypes>>

CountError(n) == <<"Maximum ", n, " files allowed">>

----------------------------------------------------------------------------
(* String helpers used by validateFile *)

toLowerCase(c) ==
    CASE c = "P" -> "p"
      [] c = "D" -> "d"
      [] c = "F" -> "f"
      [] c = "O" -> "o"
      [] c = "C" -> "c"
      [] c = "X" -> "x"
      [] c = "A" -> "a"
      [] OTHER -> c

ToLowerCase(s) == [i \in DOMAIN s |-> toLowerCase(s[i])]

\* s.split(sep): the segments between the occurrences of sep; never empty
RECURSIVE Split(_, _)
Split(s, sep) ==
    IF \A i \in DOMAIN s : s[i] # sep
    THEN <<s>>
    ELSE LET k == CHOOSE i \in DOMAIN s :
                      s[i] = sep /\ \A j \in 1..(i - 1) : s[j] # sep
         IN  <<SubSeq(s, 1, k - 1)>> \o Split(SubSeq(s, k + 1, Len(s)), sep)

\* arr.pop() of a non-empty array
Pop(arr) == arr[Len(arr)]

\* `.${file.name.split(".").pop()?.toLowerCase()}`
fileExtension(name) == <<".">> \o ToLowerCase(Pop(Split(name, ".")))

\* allowedFileTypes.includes(ext)
Includes(arr, x) == \E i \in DOMAIN arr : arr[i] = x

----------------------------------------------------------------------------
(* Inputs: the File objects the user can drop or select *)

Candidates ==
    { [name |-> <<"a", ".", "D", "O", "C">>, size |-> maxSizeBytes],
      [name |-> <<"p", "d", "f">>, size |-> 1],
      [name |-> <<"a", ".", "p", "d", "f">>, size |-> maxSizeBytes + 1],
      [name |-> <<"a", ".", "t", "x", "t">>, size |-> 1],
      [name |-> <<"a", ".", "t", "x", "t">>, size |-> maxSizeBytes + 1] }

\* a FileList: zero (a drop that carries no file) to MaxBatch files
Batches == UNION { [1..n -> Candidates] : n \in 0..MaxBatch }

----------------------------------------------------------------------------
(* validateFile and processFiles *)

\* validateFile with the size ceiling itself rejected (>= for >)
validateFileSizeInclusive(file) ==
    IF file.size >= maxSizeBytes
    THEN [valid |-> FALSE, error |-> SizeError]
    ELSE IF ~Includes(allowedFileTypes, fileExtension(file.name))
    THEN [valid |-> FALSE, error |-> TypeError]
    ELSE IF Len(files) >= maxFiles
    THEN [valid |-> FALSE, error |-> CountError(maxFiles)]
    ELSE [valid |-> TRUE]

\* validateFile(file), evaluated against the files and maxFiles of the
\* render whose handler is running
validateFile(file) ==
    IF file.size > maxSizeBytes
    THEN [valid |-> FALSE, error |-> SizeError]
    ELSE IF ~Includes(allowedFileTypes, fileExtension(file.name))
    THEN [valid |-> FALSE, error |-> TypeError]
    ELSE IF Len(files) >= maxFiles
    THEN [valid |-> FALSE, error |-> CountError(maxFiles)]
    ELSE [valid |-> TRUE]

\* an id that does not change from one accepted file to the next
NewFileSameId(file, id) ==
    [name |-> file.name, size |-> file.size,
     id |-> 1, progress |-> 0, status |-> "uploading"]

\* Object.assign(file, {id, progress: 0, status: "uploading"}): the File
\* object itself, with three own properties added
NewFile(file, id) ==
    [name |-> file.name, size |-> file.size,
     id |-> id, progress |-> 0, status |-> "uploading"]

\* the forEach without the return after setError: rejected files are pushed too
RECURSIVE NewFilesKeepsRejected(_, _)
NewFilesKeepsRejected(fileList, id) ==
    IF fileList = <<>>
    THEN <<>>
    ELSE <<NewFile(Head(fileList), id)>>
            \o NewFilesKeepsRejected(Tail(fileList), id + 1)

\* the newFiles array built by the forEach of processFiles; id is the next
\* fresh identifier
RECURSIVE NewFiles(_, _)
NewFiles(fileList, id) ==
    IF fileList = <<>>
    THEN <<>>
    ELSE IF validateFile(Head(fileList)).valid
    THEN <<NewFile(Head(fileList), id)>> \o NewFiles(Tail(fileList), id + 1)
    ELSE NewFiles(Tail(fileList), id)

\* the error of the first rejected file is kept instead of the last one
RECURSIVE FirstError(_, _)
FirstError(fileList, err) ==
    IF fileList = <<>>
    THEN err
    ELSE IF validateFile(Head(fileList)).valid \/ err # Null
    THEN FirstError(Tail(fileList), err)
    ELSE FirstError(Tail(fileList), validateFile(Head(fileList)).error)

\* the value of error after setError(null) and the setError calls of the
\* forEach, of which the last one wins
RECURSIVE LastError(_, _)
LastError(fileList, err) ==
    IF fileList = <<>>
    THEN err
    ELSE IF validateFile(Head(fileList)).valid
    THEN LastError(Tail(fileList), err)
    ELSE LastError(Tail(fileList), validateFile(Head(fileList)).error)

NoCall == [fn |-> "none"]

\* processFiles(fileList) for a non-null FileList, simulateUpload of every
\* accepted file included: its interval starts with a private progress of 0
processFiles(fileList) ==
    LET newFiles == NewFiles(fileList, nextId)
        newIds == { newFiles[i].id : i \in DOMAIN newFiles }
    IN  /\ nextId + Len(newFiles) - 1 <= MaxCreated
        /\ error' = LastError(fileList, Null)
        /\ files' = IF Len(newFiles) > 0 THEN files \o newFiles ELSE files
        /\ intervals' = [i \in DOMAIN intervals \cup newIds |->
                            IF i \in DOMAIN intervals THEN intervals[i] ELSE 0]
        /\ active' = active \cup newIds
        /\ nextId' = nextId + Len(newFiles)

\* processFiles(null): the early return
processFilesNull == UNCHANGED <<error, files, intervals, active, nextId>>

----------------------------------------------------------------------------
(* Event handlers *)

\* handleDrop and handleFileInputChange: both hand their FileList to
\* processFiles and change no other state of the model (handleDrop is
\* memoised on files.length, the only part of the list validateFile reads)
handleFiles ==
    /\ \E fileList \in Batches : processFiles(fileList)
    /\ invoked' = NoCall
    /\ UNCHANGED <<maxFiles, isProcessing, timeouts>>

\* handleFileInputChange when e.target.files is null
handleFilesNull ==
    /\ processFilesNull
    /\ invoked' = NoCall
    /\ UNCHANGED <<maxFiles, isProcessing, timeouts>>

\* a comparison that matches every entry
IsFileAny(f, id) == TRUE

\* an entry of the list is the one the interval of id was started for
IsFile(f, id) == f.id = id

\* the completing update without the status change
SpreadSuccessKeepsStatus(f, progress) ==
    [id |-> f.id, progress |-> progress, status |-> f.status]

\* the completing update with the other outcome of the status type
SpreadSuccessAsError(f, progress) ==
    [id |-> f.id, progress |-> progress, status |-> "error"]

\* { ...f, progress, status: "success" }: the own properties of f (name and
\* size are accessors of the File prototype and are not copied)
SpreadSuccess(f, progress) ==
    [id |-> f.id, progress |-> progress, status |-> "success"]

\* { ...f, progress }
SpreadProgress(f, progress) ==
    [id |-> f.id, progress |-> progress, status |-> f.status]

\* updatedFiles.some((f) => f.status === "success")
someUploaded(updatedFiles) ==
    \E i \in DOMAIN updatedFiles : updatedFiles[i].status = "success"

\* updatedFiles.every((f) => f.status === "success")
allUploaded(updatedFiles) ==
    \A i \in DOMAIN updatedFiles : updatedFiles[i].status = "success"

\* progress += Math.random() * 100
IncrementTenfold(progress, r) == progress + 10 * r

\* progress is assigned instead of accumulated: progress = Math.random() * 10
IncrementAssign(progress, r) == r

\* progress += Math.random() * 10
Increment(progress, r) == progress + r

\* one firing of the interval that simulateUpload started for the file id;
\* r is the value of Math.random() * 10
Tick(id, r) ==
    /\ id \in active
    /\ LET progress == Increment(intervals[id], r)
       IN  IF progress >= Complete
           THEN LET updatedFiles ==
                        [i \in DOMAIN files |->
                            IF IsFile(files[i], id)
                            THEN SpreadSuccess(files[i], Complete)
                            ELSE files[i]]
                IN  /\ intervals' = [intervals EXCEPT ![id] = Complete]
                    /\ active' = active \ {id}
                    /\ files' = updatedFiles
                    /\ timeouts' = IF allUploaded(updatedFiles)
                                   THEN Append(timeouts, updatedFiles)
                                   ELSE timeouts
           ELSE /\ intervals' = [intervals EXCEPT ![id] = progress]
                /\ active' = active
                /\ files' = [i \in DOMAIN files |->
                                IF IsFile(files[i], id)
                                THEN SpreadProgress(files[i], progress)
                                ELSE files[i]]
                /\ timeouts' = timeouts
    /\ invoked' = NoCall
    /\ UNCHANGED <<error, maxFiles, isProcessing, nextId>>

\* the setTimeout(() => onUploadComplete(updatedFiles), 0) callbacks, run in
\* the order they were scheduled
RunTimeout ==
    /\ timeouts # <<>>
    /\ invoked' = [fn |-> "onUploadComplete", arg |-> Head(timeouts)]
    /\ timeouts' = Tail(timeouts)
    /\ UNCHANGED <<files, error, maxFiles, isProcessing,
                   intervals, active, nextId>>

\* prev.filter((file) => file.id !== id)
RECURSIVE FilterOut(_, _)
FilterOut(list, id) ==
    IF list = <<>>
    THEN <<>>
    ELSE IF Head(list).id # id
    THEN <<Head(list)>> \o FilterOut(Tail(list), id)
    ELSE FilterOut(Tail(list), id)

\* the X button of the entry at position i
removeFile(i) ==
    /\ i \in DOMAIN files
    /\ files' = FilterOut(files, files[i].id)
    /\ invoked' = NoCall
    /\ UNCHANGED <<error, maxFiles, isProcessing, intervals,
                   active, nextId, timeouts>>

\* files.find((file) => file.status === "success"), as a list
firstSuccessfulFile(list) ==
    IF \E k \in DOMAIN list : list[k].status = "success"
    THEN <<list[CHOOSE k \in DOMAIN list :
                  /\ list[k].status = "success"
                  /\ \A j \in 1..(k - 1) : list[j].status # "success"]>>
    ELSE <<>>

\* files.filter((file) => file.status === "success")
RECURSIVE successfulFiles(_)
successfulFiles(list) ==
    IF list = <<>>
    THEN <<>>
    ELSE IF Head(list).status = "success"
    THEN <<Head(list)>> \o successfulFiles(Tail(list))
    ELSE successfulFiles(Tail(list))

\* the disabled attribute without the test for uploading files
disabledIgnoresUploading ==
    \/ isProcessing
    \/ Len(successfulFiles(files)) = 0

\* the disabled attribute of the Summarize button
disabled ==
    \/ isProcessing
    \/ \E i \in DOMAIN files : files[i].status = "uploading"
    \/ Len(successfulFiles(files)) = 0

\* a click on the Summarize button: it is rendered only for a non-empty list
\* and a disabled button delivers no click
SummarizeClick ==
    /\ Len(files) > 0
    /\ ~disabled
    /\ invoked' = IF Len(successfulFiles(files)) > 0
                  THEN [fn |-> "onSummarize", arg |-> successfulFiles(files)]
                  ELSE NoCall
    /\ UNCHANGED <<files, error, maxFiles, isProcessing,
                   intervals, active, nextId, timeouts>>

\* the parent re-renders the component with another isProcessing prop
SetIsProcessing ==
    /\ isProcessing' = ~isProcessing
    /\ invoked' = NoCall
    /\ UNCHANGED <<files, error, maxFiles, intervals, active,
                   nextId, timeouts>>

----------------------------------------------------------------------------
(* ResultsDashboard and DocumentSummary *)

\* ids of the documents the parent can pass; "1" and "2" are the samples
DocIds == {"1", "2", "3"}

\* the documents prop when the parent omits it: the two hard-coded samples
defaultDocuments == <<"1", "2">>

\* the lists the parent can pass: documents are represented by their ids,
\* which are distinct within one list
DocLists ==
    { docs \in UNION { [1..n -> DocIds] : n \in 0..MaxDocs } :
        \A i, j \in DOMAIN docs : i # j => docs[i] # docs[j] }

Undefined == "undefined"

\* documents[0]?.id || ""
FirstId(docs) == IF docs = <<>> THEN "" ELSE docs[1]

\* documents.find((doc) => doc.id === activeDocument)
currentDocument ==
    IF \E i \in DOMAIN documents : documents[i] = activeDocument
    THEN activeDocument
    ELSE Undefined

\* the content area with the Tabs of the dashboard is rendered
TabsShown == Len(documents) # 0 /\ currentDocument # Undefined

\* the view prop the TabsContent of a dashboard tab passes to DocumentSummary
dashboardView(tab) ==
    CASE tab = "summary" -> "summary"
      [] tab = "full-text" -> "fullText"
      [] tab = "metadata" -> "metadata"

\* what a DocumentSummary card shows: the TabsContent of its own selected
\* tab; DocumentSummaryProps has no view prop, the one passed is not read
DocumentSummary(document, view, tab) ==
    [document |-> document,
     view |-> CASE tab = "summary" -> "summary"
                [] tab = "fulltext" -> "fullText"
                [] tab = "metadata" -> "metadata"]

\* what the content area of the dashboard displays
Displayed ==
    IF TabsShown
    THEN DocumentSummary(currentDocument, dashboardView(dashboardTab),
                         summaryTab)
    ELSE [document |-> Undefined, view |-> "none"]

\* the Tabs groups after a render: they keep their selections while the
\* content area stays rendered and mount with defaultValue="summary"
\* whenever it is rendered anew
TabsAfterRender ==
    IF TabsShown /\ TabsShown'
    THEN UNCHANGED <<dashboardTab, summaryTab>>
    ELSE dashboardTab' = "summary" /\ summaryTab' = "summary"

\* onClick={() => setActiveDocument(doc.id)} of the i-th list item
setActiveDocument(i) ==
    /\ Len(documents) # 0
    /\ i \in DOMAIN documents
    /\ activeDocument' = documents[i]
    /\ documents' = documents
    /\ TabsAfterRender
    /\ UNCHANGED uploaderVars

\* the parent renders the dashboard with another documents prop; the
\* activeDocument state keeps its value
SetDocuments(docs) ==
    /\ docs # documents
    /\ documents' = docs
    /\ activeDocument' = activeDocument
    /\ TabsAfterRender
    /\ UNCHANGED uploaderVars

\* a TabsTrigger of the dashboard: the TabsContent of the selected value is
\* rendered, with a DocumentSummary card that mounts on its default tab
ClickDashboardTab(value) ==
    /\ TabsShown
    /\ dashboardTab' = value
    /\ summaryTab' = IF value = dashboardTab THEN summaryTab ELSE "summary"
    /\ UNCHANGED <<documents, activeDocument>>
    /\ UNCHANGED uploaderVars

\* a TabsTrigger of the DocumentSummary card that is displayed
ClickSummaryTab(value) ==
    /\ TabsShown
    /\ summaryTab' = value
    /\ UNCHANGED <<documents, activeDocument, dashboardTab>>
    /\ UNCHANGED uploaderVars

\* the dashboard right after it was mounted with the prop docs
DashboardMounted(docs) ==
    /\ documents = docs
    /\ activeDocument = FirstId(docs)
    /\ dashboardTab = "summary"
    /\ summaryTab = "summary"

----------------------------------------------------------------------------
(* Specification *)

UploaderInit ==
    /\ files = <<>>
    /\ error = Null
    /\ maxFiles \in 1..MaxFilesProp
    /\ isProcessing = FALSE
    /\ intervals = <<>>
    /\ active = {}
    /\ nextId = 1
    /\ timeouts = <<>>
    /\ invoked = NoCall

\* the uploader, next to a dashboard that shows the sample documents
Init ==
    /\ UploaderInit
    /\ DashboardMounted(defaultDocuments)

Next ==
    \/ handleFiles /\ UNCHANGED dashboardVars
    \/ handleFilesNull /\ UNCHANGED dashboardVars
    \/ \E id \in DOMAIN intervals, r \in RandomTimes10 :
          Tick(id, r) /\ UNCHANGED dashboardVars
    \/ RunTimeout /\ UNCHANGED dashboardVars
    \/ \E i \in DOMAIN files : removeFile(i) /\ UNCHANGED dashboardVars
    \/ SummarizeClick /\ UNCHANGED dashboardVars
    \/ SetIsProcessing /\ UNCHANGED dashboardVars

Spec == Init /\ [][Next]_vars

\* the dashboard, mounted with any of the lists, next to an idle uploader
DashInit ==
    /\ UploaderInit
    /\ \E docs \in DocLists : DashboardMounted(docs)

DashNext ==
    \/ \E i \in DOMAIN documents : setActiveDocument(i)
    \/ \E docs \in DocLists : SetDocuments(docs)
    \/ \E value \in {"summary", "full-text", "metadata"} :
          ClickDashboardTab(value)
    \/ \E value \in {"summary", "fulltext", "metadata"} :
          ClickSummaryTab(value)

DashSpec == DashInit /\ [][DashNext]_vars

\* the identifiers simulateUpload can have started an interval for
Ids == 1..MaxCreated

\* a firing of the interval of id whose random increment is not zero
TickForward(id) == \E r \in RandomTimes10 \ {0} : Tick(id, r)

\* setInterval fires the callback of a live interval again and again, and
\* Math.random() does not return 0 forever; a scheduled timeout runs
FairSpec ==
    /\ Spec
    /\ \A id \in Ids : WF_vars(TickForward(id) /\ UNCHANGED dashboardVars)
    /\ WF_vars(RunTimeout /\ UNCHANGED dashboardVars)

----------------------------------------------------------------------------
(* Helpers of the properties *)

IdsOf(list) == { list[k].id : k \in DOMAIN list }

InList(id) == id \in IdsOf(files)

\* the entry of the list that carries the identifier id
Entry(list, id) == list[CHOOSE k \in DOMAIN list : list[k].id = id]

\* an entry still is the File object that processFiles put in the list
HasName(f) == "name" \in DOMAIN f

----------------------------------------------------------------------------
(* C1: file-count ceiling *)

\* C1 (as claimed): after any sequence of drops, selections, removals and
\* ticks the file list never holds more than maxFiles entries, also when one
\* batch carries more files than there are free slots.
C1_FileCountCeiling == Len(files) <= maxFiles

----------------------------------------------------------------------------
(* C2: extension allow-list *)

\* the name ends in '.' followed by an extension that, lower-cased, is one of
\* allowedFileTypes
EndsInAllowedExtension(name) ==
    \E k \in DOMAIN name :
        /\ name[k] = "."
        /\ Includes(allowedFileTypes, ToLowerCase(SubSeq(name, k, Len(name))))

\* C2 (as claimed): a file is added to the list only if its name ends in '.'
\* followed by an allowed extension; a name without any '.' is rejected.
C2_ExtensionAllowList ==
    \A k \in DOMAIN files :
        HasName(files[k]) => EndsInAllowedExtension(files[k].name)

----------------------------------------------------------------------------
(* C3: size ceiling *)

\* C3: a file larger than maxSizeMB * 1024 * 1024 bytes is never added to
\* the list and, selected on its own, leaves the list as it was with the
\* error 'File size exceeds {maxSizeMB}MB limit'; a file of exactly the
\* ceiling passes the size check (whatever error it gets is not that one).
C3_SizeCeiling ==
    [][ /\ \A k \in DOMAIN files' :
              HasName(files'[k]) => files'[k].size <= maxSizeMB * 1024 * 1024
        /\ \A f \in Candidates :
              processFiles(<<f>>) =>
                 /\ f.size > maxSizeMB * 1024 * 1024 =>
                       (error' = SizeError /\ files' = files)
                 /\ f.size = maxSizeMB * 1024 * 1024 => error' # SizeError
      ]_vars

\* an oversized file was rejected while a file of exactly the ceiling is in
\* the list
C3_Witness ==
    /\ error = SizeError
    /\ \E k \in DOMAIN files :
          HasName(files[k]) /\ files[k].size = maxSizeMB * 1024 * 1024

----------------------------------------------------------------------------
(* C4: one-way status toggle *)

\* C4: an accepted file enters the list as 'uploading'; the status of an
\* entry changes at most once, away from 'uploading', and never back; an
\* entry is 'success' exactly if its progress is 100 and an 'uploading'
\* entry has progress below 100.
C4_StatusToggle ==
    [][ /\ \A k \in DOMAIN files' :
              /\ files'[k].status \in {"uploading", "success", "error"}
              /\ files'[k].status = "success" <=> files'[k].progress = 100
              /\ files'[k].status = "uploading" => files'[k].progress < 100
        /\ \A id \in IdsOf(files') \ IdsOf(files) :
              Entry(files', id).status = "uploading"
        /\ \A id \in IdsOf(files') \cap IdsOf(files) :
              \/ Entry(files', id).status = Entry(files, id).status
              \/ /\ Entry(files, id).status = "uploading"
                 /\ Entry(files', id).status \in {"success", "error"}
      ]_vars

\* one file has completed while another one is half-way
C4_Witness ==
    \E k, l \in DOMAIN files :
        /\ files[k].status = "success"
        /\ files[l].status = "uploading"
        /\ files[l].progress > 0

----------------------------------------------------------------------------
(* C5: outcomes of the toggle *)

----------------------------------------------------------------------------
(* C6: progress is monotone and bounded *)

\* C6: an accepted file starts at progress 0; a tick adds a non-negative
\* increment smaller than 10 to the counter of its interval and never takes
\* it beyond 100; the progress stored for a file of the list never
\* decreases, lies in 0..100, and is 100 once the counter has reached 100.
C6_ProgressMonotone ==
    [][ /\ \A id \in IdsOf(files') \ IdsOf(files) :
              Entry(files', id).progress = 0
        /\ \A id \in IdsOf(files') \cap IdsOf(files) :
              Entry(files', id).progress >= Entry(files, id).progress
        /\ \A k \in DOMAIN files' : files'[k].progress \in 0..100
        /\ \A id \in DOMAIN intervals :
              /\ intervals'[id] - intervals[id] \in 0..9
              /\ intervals'[id] <= 100
              /\ (intervals'[id] # intervals[id] /\ id \in IdsOf(files'))
                    => Entry(files', id).progress = intervals'[id]
              /\ (intervals[id] < 100 /\ intervals'[id] = 100)
                    => id \notin active'
      ]_vars

\* a tick has passed 100 (96 + 8) and the stored progress is 100, next to a
\* file that is still below
C6_Witness ==
    \E k, l \in DOMAIN files :
        /\ files[k].progress = 100
        /\ files[l].progress \in 1..99

----------------------------------------------------------------------------
(* C7: eventual completion *)

\* C7: under fair ticks with increments that are not forever zero, every
\* accepted file that is not removed eventually has progress 100 and status
\* 'success', however many other files are uploading; the interval of a
\* completed file is stopped, so no further tick of it occurs.
C7_EventualCompletion ==
    /\ \A id \in Ids :
          InList(id) ~>
             (\/ ~InList(id)
              \/ /\ Entry(files, id).status = "success"
                 /\ Entry(files, id).progress = 100)
    /\ [](\A k \in DOMAIN files :
             files[k].status = "success" =>
                /\ files[k].id \notin active
                /\ ~ENABLED TickForward(files[k].id))

\* two files that were uploading at the same time have both completed and
\* their intervals are stopped
C7_Witness ==
    /\ Len(files) = 2
    /\ \A k \in DOMAIN files :
          files[k].status = "success" /\ files[k].progress = 100
    /\ active = {}

----------------------------------------------------------------------------
(* C8: the argument of onSummarize *)

\* C8: whenever onSummarize is invoked its argument is non-empty and is the
\* sub-list, in list order, of the entries of the current list whose status
\* is 'success': no 'uploading' or 'error' entry and no removed file.
C8_SummarizeArgument ==
    invoked.fn = "onSummarize" =>
        /\ invoked.arg # <<>>
        /\ invoked.arg = SelectSeq(files, LAMBDA f : f.status = "success")
        /\ \A k \in DOMAIN invoked.arg :
              /\ invoked.arg[k].status = "success"
              /\ invoked.arg[k].id \in IdsOf(files)

\* onSummarize was invoked with two uploaded files
C8_Witness ==
    /\ invoked.fn = "onSummarize"
    /\ Len(invoked.arg) = 2

----------------------------------------------------------------------------
(* C9: when the summarize action is enabled *)

\* no upload in progress, no processing, at least one uploaded file
CanSummarize ==
    /\ ~isProcessing
    /\ \A k \in DOMAIN files : files[k].status # "uploading"
    /\ \E k \in DOMAIN files : files[k].status = "success"

\* C9: the summarize action is enabled exactly when isProcessing is false,
\* no file of the list is 'uploading' and at least one is 'success'; so
\* onSummarize never fires during an upload or during processing, and the
\* action is disabled in the state right after a file was added.
C9_SummarizeEnabled ==
    /\ []((ENABLED SummarizeClick) <=> CanSummarize)
    /\ [][ /\ invoked'.fn = "onSummarize" => CanSummarize
           /\ IdsOf(files') \ IdsOf(files) # {} => (disabled' /\ ~CanSummarize')
         ]_vars

\* onSummarize has fired from an enabled action while an earlier file of the
\* run is no longer in the list
C9_Witness ==
    /\ ENABLED SummarizeClick
    /\ invoked.fn = "onSummarize"
    /\ Len(files) < nextId - 1

----------------------------------------------------------------------------
(* C10: when onUploadComplete is scheduled *)

\* C10: onUploadComplete is scheduled only by a tick that completes a file
\* (its interval stops at 100), only if after that update every file of the
\* list is 'success', and with that updated list as its argument; it is
\* invoked with exactly the list that was scheduled, which holds no
\* 'uploading' file.
C10_UploadCompleteScheduling ==
    [][ /\ timeouts' # timeouts =>
              \/ /\ timeouts' = Append(timeouts, files')
                 /\ \A k \in DOMAIN files' : files'[k].status = "success"
                 /\ \E id \in active :
                       id \notin active' /\ intervals'[id] = 100
              \/ /\ timeouts # <<>>
                 /\ timeouts' = Tail(timeouts)
                 /\ invoked' = [fn |-> "onUploadComplete",
                                arg |-> Head(timeouts)]
        /\ invoked'.fn = "onUploadComplete" =>
              /\ timeouts # <<>>
              /\ invoked'.arg = Head(timeouts)
              /\ \A k \in DOMAIN invoked'.arg :
                    invoked'.arg[k].status = "success"
      ]_vars

\* onUploadComplete was invoked for two uploaded files
C10_Witness ==
    /\ invoked.fn = "onUploadComplete"
    /\ Len(invoked.arg) = 2

----------------------------------------------------------------------------
(* C11: the dashboard tab determines the view *)

\* C11 (as claimed): for the current document the dashboard displays the
\* view of its selected tab: the summary with Summary, the full text with
\* Full Text, the metadata with Metadata.
C11_TabDeterminesView ==
    TabsShown =>
        Displayed = [document |-> currentDocument,
                     view |-> CASE dashboardTab = "summary" -> "summary"
                                [] dashboardTab = "full-text" -> "fullText"
                                [] dashboardTab = "metadata" -> "metadata"]

----------------------------------------------------------------------------
(* C12: a removed file can be uploaded again *)

\* C12: a file selected after a removal (the removed file itself included)
\* enters the list as a fresh entry, with an id no earlier entry had,
\* progress 0 and status 'uploading'; the interval of a removed entry, which
\* keeps running, never alters an entry of the list; and the new entry runs
\* to completion (or is removed) under fair ticks.
C12_UploadAgain ==
    /\ [][ /\ \A k \in DOMAIN files' :
                 k > Len(files) =>
                    /\ files'[k].id \notin DOMAIN intervals
                    /\ \A l \in DOMAIN files' : l # k => files'[l].id # files'[k].id
                    /\ files'[k].progress = 0
                    /\ files'[k].status = "uploading"
           /\ \A id \in DOMAIN intervals :
                 (id \notin IdsOf(files) /\ intervals'[id] # intervals[id])
                    => files' = files
         ]_vars
    /\ \A id \in Ids :
          (InList(id) /\ \E j \in 1..(id - 1) : ~InList(j)) ~>
             (~InList(id) \/ Entry(files, id).status = "success")

\* the file selected after the removal has completed while the interval of
\* the removed entry is still running
C12_Witness ==
    \E k \in DOMAIN files :
        /\ files[k].status = "success"
        /\ \E j \in active :
              /\ j < files[k].id
              /\ ~InList(j)
              /\ intervals[j] \in 1..99

----------------------------------------------------------------------------
(* C13: state unchanged on rejection *)

\* the message of the first check the file fails (size, then type, then
\* count), Null if it passes all three
FailedCheck(f) ==
    IF f.size > maxSizeMB * 1024 * 1024
    THEN <<"File size exceeds ", maxSizeMB, "MB limit">>
    ELSE IF \A k \in DOMAIN allowedFileTypes :
                allowedFileTypes[k] # fileExtension(f.name)
    THEN <<"File type not supported. Allowed types: ", allowedFileTypes>>
    ELSE IF Len(files) >= maxFiles
    THEN <<"Maximum ", maxFiles, " files allowed">>
    ELSE Null

\* C13: a file that fails validation is not added to the list and gets no
\* interval, and every existing entry keeps its id, progress, status and
\* position: selected on its own it changes nothing but the error, which
\* becomes the message of the failed check; whatever a step adds to the list
\* comes after the existing entries and has passed validation.
C13_RejectionLeavesState ==
    [][ /\ \A f \in Candidates :
              (FailedCheck(f) # Null /\ processFiles(<<f>>)) =>
                 /\ files' = files
                 /\ intervals' = intervals
                 /\ active' = active
                 /\ nextId' = nextId
                 /\ error' = FailedCheck(f)
        /\ Len(files') > Len(files) =>
              /\ SubSeq(files', 1, Len(files)) = files
              /\ \A k \in (Len(files) + 1)..Len(files') :
                    /\ HasName(files'[k])
                    /\ FailedCheck(files'[k]) = Null
                    /\ files'[k].id \in active' \ active
      ]_vars

\* a file was rejected by the count check next to a list that is full and
\* whose entries are in progress
C13_Witness ==
    /\ error = <<"Maximum ", maxFiles, " files allowed">>
    /\ Len(files) = maxFiles
    /\ \E k \in DOMAIN files : files[k].progress \in 1..99

----------------------------------------------------------------------------
(* C14: batch error semantics *)

\* the files of the batch that pass the three checks, in batch order
Accepted(fileList) == SelectSeq(fileList, LAMBDA f : FailedCheck(f) = Null)

\* the files of the batch that fail a check, in batch order
Rejected(fileList) == SelectSeq(fileList, LAMBDA f : FailedCheck(f) # Null)

\* the error the claim expects after the batch
ExpectedError(fileList) ==
    IF Rejected(fileList) = <<>>
    THEN Null
    ELSE FailedCheck(Rejected(fileList)[Len(Rejected(fileList))])

\* the batches that start with a file failing both the size and the type check
RejectedFirst ==
    { fileList \in Batches :
         /\ Len(fileList) = MaxBatch
         /\ fileList[1].size > maxSizeMB * 1024 * 1024
         /\ fileList[1].name = <<"a", ".", "t", "x", "t">> }

\* C14: processFiles with a non-null batch replaces the previous error: it
\* is null afterwards if no file of the batch was rejected and otherwise the
\* message of the last rejected file, where the size check precedes the type
\* check and the type check the count check; the valid files of the batch
\* are appended after the existing entries in batch order, rejected files of
\* the same batch notwithstanding.  In every reachable state the error and
\* the new entries processFiles computes for any batch are these, and every
\* step of a batch that starts with a rejected file ends with them, whatever
\* the error was before.
C14_BatchErrorSemantics ==
    /\ [](\A fileList \in Batches :
             /\ LastError(fileList, Null) = ExpectedError(fileList)
             /\ Len(NewFiles(fileList, nextId)) = Len(Accepted(fileList))
             /\ \A k \in DOMAIN Accepted(fileList) :
                   /\ NewFiles(fileList, nextId)[k].name = Accepted(fileList)[k].name
                   /\ NewFiles(fileList, nextId)[k].size = Accepted(fileList)[k].size)
    /\ [][ \A fileList \in RejectedFirst :
              processFiles(fileList) =>
                 /\ error' = ExpectedError(fileList)
                 /\ Len(files') = Len(files) + Len(Accepted(fileList))
                 /\ \A k \in DOMAIN files : files'[k] = files[k]
                 /\ \A k \in DOMAIN Accepted(fileList) :
                       /\ files'[Len(files) + k].name = Accepted(fileList)[k].name
                       /\ files'[Len(files) + k].size = Accepted(fileList)[k].size
         ]_vars

\* after a batch of a rejected and a valid file the valid one is in the list
\* and the error is the message of the rejected one, which failed two checks
C14_Witness ==
    /\ error = <<"File size exceeds ", maxSizeMB, "MB limit">>
    /\ \E k \in DOMAIN files : HasName(files[k]) /\ files[k].progress = 0

----------------------------------------------------------------------------
(* C15: onUploadComplete for a non-empty list, triggered by a list entry *)

\* C15: onUploadComplete is never invoked with an empty list, and a
\* completion schedules it only when the interval that completed belongs to
\* an entry of the list (not to a file that has been removed).
C15_UploadCompleteNonEmpty ==
    /\ [](invoked.fn = "onUploadComplete" => invoked.arg # <<>>)
    /\ [][ Len(timeouts') > Len(timeouts) =>
              \E id \in active \ active' : InList(id)
         ]_vars

----------------------------------------------------------------------------
(* C16: ticks of a removed file are inert on the list *)

\* C16: removeFile stops no interval, and an interval stops only when its
\* private counter has reached 100; a tick of an interval whose file has
\* been removed leaves the list as it is; every tick keeps the length of the
\* list, the ids of its entries and their order; and under fair ticks the
\* interval of a removed file does reach 100.
C16_RemovedTicksInert ==
    /\ [][ /\ Len(files') < Len(files) =>
                 (active' = active /\ intervals' = intervals)
           /\ \A id \in active \ active' : intervals'[id] = 100
           /\ \A id \in DOMAIN intervals, r \in RandomTimes10 :
                 Tick(id, r) =>
                    /\ Len(files') = Len(files)
                    /\ \A k \in DOMAIN files : files'[k].id = files[k].id
                    /\ ~InList(id) => files' = files
         ]_vars
    /\ \A id \in Ids :
          (id \in active /\ ~InList(id)) ~>
             (/\ id \notin active
              /\ ~InList(id)
              /\ id \in DOMAIN intervals
              /\ intervals[id] = 100)

\* the one entry of the list was scheduled for onUploadComplete twice, as it
\* is now: once by its own completion and once by the last tick of a file
\* that had been removed
C16_Witness ==
    /\ Len(files) = 1
    /\ files[1].status = "success"
    /\ timeouts = <<files, files>>
    /\ \E j \in DOMAIN intervals : ~InList(j) /\ intervals[j] = 100

----------------------------------------------------------------------------
(* C17: the active document is a document of the list *)

\* C17: whenever the documents prop is not empty, the active document id is
\* the id of a document of the current list, so that a document is displayed.
C17_ActiveDocumentInList ==
    documents # <<>> =>
       /\ \E i \in DOMAIN documents : documents[i] = activeDocument
       /\ Displayed.document = activeDocument

====
